---- MODULE Spec2Model ----
(***************************************************************************)
(* Monte Carlo comparison of two cooling-fan replacement policies.         *)
(*                                                                         *)
(*   src/V0/Simulation.py  the fixed-count script: seed, simulate          *)
(*                         ('current'), simulate('proposed')               *)
(*   src/app.py            the dashboard: calculate_costs,                 *)
(*                         run_total_policy (tab 1), simulate_rate_trial   *)
(*                         and the paired t-test (tab 2)                   *)
(*                                                                         *)
(* Money is kept in sixtieths of a dollar (Scale), so that                 *)
(* minutes / 60 * rate is exact: x dollars are x * Scale.                  *)
(* A uniform variate of the random source is a percentage 0..99; choice    *)
(* inverts the cumulative distribution as numpy does.                      *)
(***************************************************************************)
EXTENDS Integers, Sequences, FiniteSets

(* ------------------------------ bounds -------------------------------- *)

\* most failures per simulate call (45 in the script) and per trial (n_fail,
\* a sidebar input of at least 1 in the dashboard)
NumFailures == 2

\* most Monte Carlo trials per policy (n_trials, a sidebar input)
NumTrials == 2

\* number of distinct values a uniform variate takes in the model
NumU == 2

(* ---------------------------- parameters ------------------------------ *)

Scale == 60

\* src/V0/Simulation.py
fan_cost == 32
downtime_cost_per_min == 10
labor_cost_per_hr == 30
replacement_time == [current |-> 20, proposed |-> 40]
fans_replaced == [current |-> 1, proposed |-> 3]
fan_lifetimes == <<1000, 1100, 1200, 1300, 1400, 1500, 1600, 1700, 1800, 1900>>
fan_probs == <<10, 13, 25, 13, 9, 12, 2, 6, 5, 5>>
arrival_delays == <<20, 30, 45>>
delay_probs == <<60, 30, 10>>
num_failures == NumFailures
SeedV0 == 123

\* src/app.py
FAN_COST == 32
DOWNTIME_RATE == 10
LABOR_RATE == 30
rt1 == 20
rt2 == 30
rt3 == 40
REPLACEMENT_TIME == <<rt1, rt2, rt3>>
LIFETIME_VALUES == <<1000, 1100, 1200, 1300, 1400, 1500, 1600, 1700, 1800, 1900>>
LIFETIME_PROBS == <<10, 13, 25, 13, 9, 12, 2, 6, 5, 5>>
DELAY_VALUES == <<20, 30, 45>>
DELAY_PROBS == <<60, 30, 10>>
\* alpha = 0.01, in units of 1/2000
alpha == 20
\* the p-value that is not a number (a p-value proper is never negative)
NaN == -1

(* --------------------------- random source ---------------------------- *)

\* the values a uniform variate takes: NumU points spread over 0..99
UGrid == {(n * 99) \div (NumU - 1) : n \in 0..(NumU - 1)}

RECURSIVE CumSum(_, _)
CumSum(p, n) == IF n = 0 THEN 0 ELSE p[n] + CumSum(p, n - 1)

\* numpy's choice(values, p=probs) for the uniform variate u: the index is
\* cdf.searchsorted(u, side='right'), the number of cdf entries <= u
choice(values, probs, u) ==
  values[1 + Cardinality({n \in 1..Len(probs) : CumSum(probs, n) <= u})]

\* choice tabulated over UGrid, as an explicit function
Tabulate(values, probs) ==
  CHOOSE f \in [UGrid -> {values[j] : j \in 1..Len(values)}] :
    \A u \in UGrid : f[u] = choice(values, probs, u)

\* the value each variate of UGrid selects from the tables
lifetime_of == Tabulate(LIFETIME_VALUES, LIFETIME_PROBS)
delay_of == Tabulate(DELAY_VALUES, DELAY_PROBS)
life_of == Tabulate(fan_lifetimes, fan_probs)
arrival_of == Tabulate(arrival_delays, delay_probs)

RECURSIVE SumSeq(_)
SumSeq(s) == IF s = <<>> THEN 0 ELSE Head(s) + SumSeq(Tail(s))

Min3(lv) == CHOOSE m \in {lv[1], lv[2], lv[3]} : \A i \in 1..3 : m <= lv[i]

(* ------------------------------- state -------------------------------- *)

Runs == 1..2

VARIABLES
  prog,          \* which program runs: "V0", "tab1", "tab2", "stat"
  n_trials,      \* dashboard input: Monte Carlo trials
  n_fail,        \* dashboard input: failures per trial
  pc,            \* the position in the code
  ex,            \* V0: the two executions of the script, by run
  mt,            \* V0: the variates the generator yields after seed(s), so far
  replace_count, \* tab1: argument of run_total_policy
  costs,         \* tab1: the list costs
  cum_cost,      \* tab1: running total of the trial
  npPos,         \* tab1: variates consumed from the global generator so far
  dlog,          \* tab1: the delays drawn in the trial so far
  k,             \* tab1, tab2: iterations of the inner loop completed
  delay,         \* tab1, tab2: the delay drawn in the last event
  downtime,      \* tab1, tab2: downtime of the last event
  num,           \* tab1, tab2: fans replaced in the last event
  c,             \* tab1, tab2: cost of the last event
  replace_all,   \* tab2: argument of simulate_rate_trial
  lives,         \* tab2: remaining lifetimes of the three fans
  total_hours,   \* tab2
  total_cost,    \* tab2
  t_fail,        \* tab2: elapsed time of the last event
  idx,           \* tab2: slot renewed in the last event (0: all)
  rsPos,         \* tab2: variates consumed from rs so far
  first,         \* tab2: rsPos when the running trial was called
  spans,         \* tab2: per policy, the <<first, last+1>> positions of rs
                 \*       each finished trial consumed
  rates_curr,    \* stat
  rates_prop,    \* stat
  t_rel,         \* stat: "neg", "zero", "pos" or "nan"
  p_two,         \* stat: two-tailed p in 1/1000, or NaN
  p_one,         \* stat: one-tailed p in 1/2000, or NaN
  verdict        \* stat: "success" or "info"

v0vars == <<ex, mt>>
evvars == <<k, delay, downtime, num, c>>
t1vars == <<replace_count, costs, cum_cost, npPos, dlog>>
t2vars ==
  <<replace_all, lives, total_hours, total_cost, t_fail, idx, rsPos, first, spans>>
stvars == <<rates_curr, rates_prop, t_rel, p_two, p_one, verdict>>
inputs == <<prog, n_trials, n_fail>>
vars == <<inputs, pc, v0vars, evvars, t1vars, t2vars, stvars>>

(* ------------------- values of the parts not running ------------------ *)

V0Idle ==
  /\ ex = <<>>
  /\ mt = <<>>

EvIdle == k = 0 /\ delay = 0 /\ downtime = 0 /\ num = 0 /\ c = 0

T1Idle ==
  replace_count = 0 /\ costs = <<>> /\ cum_cost = 0 /\ npPos = 0 /\ dlog = <<>>

T2Idle ==
  /\ replace_all = FALSE
  /\ lives = <<0, 0, 0>>
  /\ total_hours = 0
  /\ total_cost = 0
  /\ t_fail = 0
  /\ idx = 0
  /\ rsPos = 0
  /\ first = 0
  /\ spans = [current |-> <<>>, proposed |-> <<>>]

StIdle ==
  /\ rates_curr = <<>>
  /\ rates_prop = <<>>
  /\ t_rel = "nan"
  /\ p_two = NaN
  /\ p_one = NaN
  /\ verdict = "none"

(* ------------------- src/V0/Simulation.py: the script ----------------- *)

\* the generator states the script can start from: seed(SeedV0), or a state
\* of its own for each execution when the generator is not seeded by a value
Seeds == {SeedV0} \cup {SeedV0 + r : r \in Runs}

\* mutant: the state depends on the execution, as when the generator is
\* seeded from the clock
seed_state_of_run(r, s) == s + r

\* np.random.seed(123): the generator state is set from the argument alone
seed_state(r, s) == s

\* the streams that agree with the materialised stream s and have at least n
\* variates: a position already drawn is read back, a new one is free
Extensions(s, n) ==
  IF Len(s) >= n THEN {s}
  ELSE {s \o e : e \in [1..(n - Len(s)) -> UGrid]}

\* mutant: one iteration too many
simulate_range_done_late(i) == i > num_failures

\* for i in range(1, num_failures + 1): exhausted after i iterations
simulate_range_done(i) == i >= num_failures

\* the cost components of one event of simulate(policy), in sixtieths
EventCost(policy, dl) ==
  LET rep_time == replacement_time[policy]
      n_fans == fans_replaced[policy]
      rep_cost == n_fans * fan_cost * Scale
      dtime == dl + rep_time
      dt_cost == dtime * downtime_cost_per_min * Scale
      \* labor_time_hr = rep_time / 60.0; labor_cost = labor_time_hr * rate
      labor_cost == rep_time * labor_cost_per_hr
  IN [rep_time |-> rep_time, n_fans |-> n_fans, rep_cost |-> rep_cost,
      downtime |-> dtime, dt_cost |-> dt_cost, labor_cost |-> labor_cost,
      event_cost |-> rep_cost + dt_cost + labor_cost]

NoEvent ==
  [rep_time |-> 0, n_fans |-> 0, rep_cost |-> 0, downtime |-> 0,
   dt_cost |-> 0, labor_cost |-> 0, event_cost |-> 0]

\* return total_cost, once the loop is exhausted, and the assignment of
\* __main__ that receives it
Return(e) ==
  IF ~simulate_range_done(e.i) THEN e
  ELSE IF e.policy = "current" THEN [e EXCEPT !.cost_current = e.total_cost]
  ELSE [e EXCEPT !.cost_proposed = e.total_cost]

\* where __main__ stands when execution e has left the loop
AfterReturn(e) == IF e.policy = "current" THEN "returned" ELSE "done"

\* the call simulate(policy): total_cost = 0.0, then the loop
EnterSimulate(e, policy) ==
  Return([e EXCEPT !.policy = policy, !.i = 0, !.total_cost = 0,
                   !.delays = <<>>, !.lifes = <<>>, !.first = e.pos])

V0Init ==
  /\ prog = "V0"
  /\ n_trials = 0 /\ n_fail = 0
  /\ pc = "seed"
  /\ ex = [r \in Runs |->
            [seed |-> SeedV0 + r, pos |-> 0, first |-> 0,
             policy |-> "none", i |-> 0, total_cost |-> 0,
             delays |-> <<>>, lifes |-> <<>>, ev |-> NoEvent,
             cost_current |-> -1, cost_proposed |-> -1]]
  /\ mt = [s \in Seeds |-> <<>>]
  /\ EvIdle /\ T1Idle /\ T2Idle /\ StIdle

\* one iteration of the loop of simulate in execution e, which reads its
\* generator's stream str: a lifetime, then a delay
Iteration(e, str) ==
  LET life == life_of[str[e.pos + 1]]
      dl == arrival_of[str[e.pos + 2]]
      ev == EventCost(e.policy, dl)
  IN Return([e EXCEPT !.pos = e.pos + 2,
                      !.i = e.i + 1,
                      !.ev = ev,
                      !.lifes = Append(e.lifes, life),
                      !.delays = Append(e.delays, dl),
                      !.total_cost = e.total_cost + ev.event_cost])

\* The two executions share nothing, so their steps are taken together.

\* __main__: np.random.seed(123), then the call simulate('current')
V0Seed ==
  /\ prog = "V0" /\ pc = "seed"
  /\ ex' = [r \in Runs |->
              EnterSimulate([ex[r] EXCEPT !.seed = seed_state(r, SeedV0),
                                          !.pos = 0], "current")]
  /\ pc' = IF simulate_range_done(0) THEN "returned" ELSE "simulate"
  /\ UNCHANGED <<inputs, mt, evvars, t1vars, t2vars, stvars>>

\* one iteration of the loop of simulate, in each execution; the last one
\* is followed by the return
V0Iterate ==
  /\ prog = "V0" /\ pc = "simulate"
  /\ \E s1 \in Extensions(mt[ex[1].seed], ex[1].pos + 2) :
       LET m1 == [mt EXCEPT ![ex[1].seed] = s1] IN
       \E s2 \in Extensions(m1[ex[2].seed], ex[2].pos + 2) :
         /\ mt' = [m1 EXCEPT ![ex[2].seed] = s2]
         /\ ex' = [r \in Runs |-> Iteration(ex[r], mt'[ex[r].seed])]
  /\ pc' = IF simulate_range_done(ex[1].i + 1) THEN AfterReturn(ex[1])
           ELSE "simulate"
  /\ UNCHANGED <<inputs, evvars, t1vars, t2vars, stvars>>

\* __main__: the call simulate('proposed')
V0CallProposed ==
  /\ prog = "V0" /\ pc = "returned"
  /\ ex' = [r \in Runs |-> EnterSimulate(ex[r], "proposed")]
  /\ pc' = IF simulate_range_done(0) THEN "done" ELSE "simulate"
  /\ UNCHANGED <<inputs, mt, evvars, t1vars, t2vars, stvars>>

(* ---------------------- src/app.py: calculate_costs ------------------- *)

\* (total_cost, labor_cost, fan_cost, downtime_cost), in sixtieths
calculate_costs(downtime_min, num_fans) ==
  LET labor == downtime_min * LABOR_RATE
      fan == num_fans * FAN_COST * Scale
      dt == downtime_min * DOWNTIME_RATE * Scale
  IN [total_cost |-> labor + fan + dt, labor_cost |-> labor,
      fan_cost |-> fan, downtime_cost |-> dt]

(* ------------------ src/app.py, tab 1: run_total_policy --------------- *)
(* curr_total = run_total_policy(1) and prop_total = run_total_policy(3)   *)
(* are two calls that share nothing but the global generator, which is     *)
(* seeded once and never read twice at one position: each variate drawn   *)
(* is free. The model runs one call, for either argument.                  *)

\* for _ in range(int(n_trials))
trials_range_done(n) == n >= n_trials

\* for _ in range(int(n_fail))
fail_range_done(j) == j >= n_fail

T1Init ==
  /\ prog = "tab1"
  /\ n_trials \in 1..NumTrials
  /\ n_fail \in 1..NumFailures
  /\ pc = "trial"
  /\ replace_count \in {1, 3}
  /\ costs = <<>> /\ cum_cost = 0 /\ npPos = 0 /\ dlog = <<>>
  /\ V0Idle /\ EvIdle /\ T2Idle /\ StIdle

\* the head of the outer loop: cum_cost = 0.0 and the inner loop's test
T1Trial ==
  /\ prog = "tab1" /\ pc = "trial" /\ ~trials_range_done(Len(costs))
  /\ cum_cost' = 0
  /\ dlog' = <<>>
  /\ k' = 0
  /\ pc' = IF fail_range_done(0) THEN "append" ELSE "fail"
  /\ UNCHANGED <<inputs, v0vars, delay, downtime, num, c, replace_count, costs,
                 npPos, t2vars, stvars>>

\* one iteration of the inner loop
T1Iterate ==
  /\ prog = "tab1" /\ pc = "fail"
  /\ \E u1 \in UGrid, u2 \in UGrid :
       LET life == lifetime_of[u1]
           dl == delay_of[u2]
           dt == dl + REPLACEMENT_TIME[replace_count]
           cc == calculate_costs(dt, replace_count)
       IN /\ delay' = dl
          /\ downtime' = dt
          /\ num' = replace_count
          /\ c' = cc.total_cost
          /\ cum_cost' = cum_cost + cc.total_cost
          /\ dlog' = Append(dlog, dl)
  /\ npPos' = npPos + 2
  /\ k' = k + 1
  /\ pc' = IF fail_range_done(k + 1) THEN "append" ELSE "fail"
  /\ UNCHANGED <<inputs, v0vars, replace_count, costs, t2vars, stvars>>

\* costs.append(cum_cost)
T1Append ==
  /\ prog = "tab1" /\ pc = "append"
  /\ costs' = Append(costs, cum_cost)
  /\ pc' = "trial"
  /\ UNCHANGED <<inputs, v0vars, evvars, replace_count, cum_cost, npPos, dlog,
                 t2vars, stvars>>

\* return np.array(costs)
T1Return ==
  /\ prog = "tab1" /\ pc = "trial" /\ trials_range_done(Len(costs))
  /\ pc' = "done"
  /\ UNCHANGED <<inputs, v0vars, evvars, t1vars, t2vars, stvars>>

(* --------------- src/app.py, tab 2: simulate_rate_trial --------------- *)
(* rs is created once and never read twice at one position: each variate   *)
(* drawn is free, and rsPos counts them. spans keeps, for each finished    *)
(* trial, the part of the stream it consumed; the rate it returns is      *)
(* total_cost / total_hours of its return state.                          *)

PolicyOf(all) == IF all THEN "proposed" ELSE "current"

\* for _ in range(int(n_fail))
rate_range_done(j) == j >= n_fail

\* range(int(n_trials)) of each list comprehension
rates_range_done(n) == n >= n_trials

\* mutant: the minimum is taken after the lifetimes were aged
elapsed_after_aging(lv) == Min3([i \in 1..3 |-> lv[i] - Min3(lv)])

\* t_fail = lives.min()
elapsed(lv) == Min3(lv)

\* mutant: the first fan's lifetime is subtracted, not the elapsed time
aged_by_first(lv, t) == [i \in 1..3 |-> lv[i] - lv[1]]

\* lives -= t_fail
aged(lv, t) == [i \in 1..3 |-> lv[i] - t]

\* mutant: the last index of the minimum
argmin_last(lv) ==
  CHOOSE i \in 1..3 : lv[i] = Min3(lv) /\ \A j \in (i + 1)..3 : lv[j] # Min3(lv)

\* np.argmin(lives): the first index of the minimum
argmin(lv) ==
  CHOOSE i \in 1..3 : lv[i] = Min3(lv) /\ \A j \in 1..(i - 1) : lv[j] # Min3(lv)

\* mutant: the current policy draws the one lifetime it uses
next_lives_size_by_policy(all) == IF all THEN 3 ELSE 1

\* size=3 of next_lives, whatever the policy
next_lives_size(all) == 3

\* lives[idx] = next_lives[0], with idx = np.argmin(lives)
renew_one(lv, next) == [lv EXCEPT ![argmin(lv)] = next[1]]

\* mutant: the proposed policy renews the failed slot alone
renew_all_failed_only(lv, next) == [lv EXCEPT ![argmin(lv)] = next[1]]

\* lives = next_lives.copy()
renew_all(lv, next) == next

T2Init ==
  /\ prog = "tab2"
  /\ n_trials \in 1..NumTrials
  /\ n_fail \in 1..NumFailures
  /\ pc = "rs"
  /\ T2Idle
  /\ V0Idle /\ EvIdle /\ T1Idle /\ StIdle

\* rs = np.random.RandomState(int(seed)), then the first list comprehension
T2RandomState ==
  /\ prog = "tab2" /\ pc = "rs"
  /\ rsPos' = 0
  /\ replace_all' = FALSE
  /\ pc' = "trial"
  /\ UNCHANGED <<inputs, v0vars, evvars, t1vars, lives, total_hours, total_cost,
                 t_fail, idx, first, spans, stvars>>

\* the call simulate_rate_trial(replace_all), to the loop's first test
T2Trial ==
  /\ prog = "tab2" /\ pc = "trial"
  /\ ~rates_range_done(Len(spans[PolicyOf(replace_all)]))
  /\ \E u \in [1..3 -> UGrid] :
       lives' = [i \in 1..3 |-> lifetime_of[u[i]]]
  /\ first' = rsPos
  /\ rsPos' = rsPos + 3
  /\ total_hours' = 0
  /\ total_cost' = 0
  /\ k' = 0
  /\ pc' = IF rate_range_done(0) THEN "ret" ELSE "event"
  /\ UNCHANGED <<inputs, v0vars, delay, downtime, num, c, t1vars, replace_all,
                 t_fail, idx, spans, stvars>>

\* t_fail = lives.min(); total_hours += t_fail; lives -= t_fail
T2Age ==
  /\ prog = "tab2" /\ pc = "event"
  /\ t_fail' = elapsed(lives)
  /\ total_hours' = total_hours + elapsed(lives)
  /\ lives' = aged(lives, elapsed(lives))
  /\ pc' = "aged"
  /\ UNCHANGED <<inputs, v0vars, evvars, t1vars, replace_all, total_cost, idx,
                 rsPos, first, spans, stvars>>

\* next_lives and delay are drawn, the fleet is renewed, the event is costed.
\* Of next_lives the current policy reads next_lives[0] alone: the variates
\* behind the others are consumed and have no effect, so they are not
\* enumerated.
T2Renew ==
  /\ prog = "tab2" /\ pc = "aged"
  /\ \E u1 \in UGrid, ud \in UGrid :
     \E rest \in IF replace_all THEN [2..3 -> UGrid] ELSE {<<>>} :
       LET next_lives == [i \in 1..3 |-> lifetime_of[IF i = 1 THEN u1 ELSE rest[i]]]
           dl == delay_of[ud]
           n == IF replace_all THEN 3 ELSE 1
           dt == dl + REPLACEMENT_TIME[n]
       IN /\ IF replace_all
             THEN lives' = renew_all(lives, next_lives) /\ idx' = idx
             ELSE lives' = renew_one(lives, next_lives) /\ idx' = argmin(lives)
          /\ delay' = dl
          /\ num' = n
          /\ downtime' = dt
          /\ c' = calculate_costs(dt, n).total_cost
          /\ total_cost' = total_cost + calculate_costs(dt, n).total_cost
  /\ rsPos' = rsPos + next_lives_size(replace_all) + 1
  /\ k' = k + 1
  /\ pc' = IF rate_range_done(k + 1) THEN "ret" ELSE "event"
  /\ UNCHANGED <<inputs, v0vars, t1vars, replace_all, total_hours, t_fail,
                 first, spans, stvars>>

\* return total_cost / total_hours, which ends the call and its locals; the
\* comprehension goes on, or the next one starts
T2Return ==
  /\ prog = "tab2" /\ pc = "ret"
  /\ IF total_hours = 0
     THEN /\ pc' = "ZeroDivisionError"
          /\ UNCHANGED <<replace_all, spans, evvars, lives, total_hours,
                         total_cost, t_fail, idx, first>>
     ELSE LET pol == PolicyOf(replace_all)
              done == rates_range_done(Len(spans[pol]) + 1)
          IN /\ spans' = [spans EXCEPT ![pol] = Append(@, <<first, rsPos>>)]
             /\ replace_all' = (replace_all \/ done)
             /\ pc' = IF done /\ replace_all THEN "done" ELSE "trial"
             /\ k' = 0 /\ delay' = 0 /\ downtime' = 0 /\ num' = 0 /\ c' = 0
             /\ lives' = <<0, 0, 0>> /\ total_hours' = 0
             /\ total_cost' = 0 /\ t_fail' = 0 /\ idx' = 0 /\ first' = 0
  /\ UNCHANGED <<inputs, v0vars, t1vars, rsPos, stvars>>

(* ---------------- src/app.py, tab 2: the paired t-test ---------------- *)
(* The comparator is modelled over its inputs: two arrays of n_trials      *)
(* cost rates. ttest_rel gives t the sign of the mean difference: nan     *)
(* for a single pair or when all differences are 0, infinite with p = 0   *)
(* when they are equal and not 0; a finite non-zero t comes with any p    *)
(* of PGrid.                                                               *)

RateVals == {1, 2, 3}

\* two-tailed p-values, in 1/1000
PGrid == {1, 19, 20, 21, 500, 999}

ttest_rel(a, b) ==
  LET d == [i \in DOMAIN a |-> a[i] - b[i]]
      sumd == SumSeq(d)
      flat == \A i \in DOMAIN d, j \in DOMAIN d : d[i] = d[j]
      sign == IF sumd > 0 THEN "pos" ELSE IF sumd < 0 THEN "neg" ELSE "zero"
  IN IF Len(a) < 2 \/ (flat /\ sumd = 0) THEN {<<"nan", NaN>>}
     ELSE IF flat THEN {<<sign, 0>>}
     ELSE IF sumd = 0 THEN {<<"zero", 1000>>}
     ELSE {<<sign, p>> : p \in PGrid}

\* p_one = p_two/2 if t_rel > 0 else 1 - p_two/2, in 1/2000
one_tailed(t, p) ==
  IF p = NaN THEN NaN ELSE IF t = "pos" THEN p ELSE 2000 - p

\* mutant: p_one <= alpha
significant_at_most(a, b, p) ==
  SumSeq(a) > SumSeq(b) /\ p # NaN /\ p <= alpha

\* (rates_curr.mean() > rates_prop.mean()) and (p_one < alpha)
significant(a, b, p) ==
  SumSeq(a) > SumSeq(b) /\ p # NaN /\ p < alpha

StInit ==
  /\ prog = "stat"
  /\ n_trials \in 1..NumTrials
  /\ n_fail = 0
  /\ pc = "ttest"
  /\ rates_curr \in [1..n_trials -> RateVals]
  /\ rates_prop \in [1..n_trials -> RateVals]
  /\ t_rel = "nan" /\ p_two = NaN /\ p_one = NaN /\ verdict = "none"
  /\ V0Idle /\ EvIdle /\ T1Idle /\ T2Idle

\* t_rel, p_two = ttest_rel(rates_curr, rates_prop)
StTTest ==
  /\ prog = "stat" /\ pc = "ttest"
  /\ \E r \in ttest_rel(rates_curr, rates_prop) : t_rel' = r[1] /\ p_two' = r[2]
  /\ pc' = "decide"
  /\ UNCHANGED <<inputs, v0vars, evvars, t1vars, t2vars, rates_curr, rates_prop,
                 p_one, verdict>>

\* p_one, then st.success or st.info
StDecide ==
  /\ prog = "stat" /\ pc = "decide"
  /\ p_one' = one_tailed(t_rel, p_two)
  /\ verdict' = IF significant(rates_curr, rates_prop, one_tailed(t_rel, p_two))
                THEN "success" ELSE "info"
  /\ pc' = "done"
  /\ UNCHANGED <<inputs, v0vars, evvars, t1vars, t2vars, rates_curr, rates_prop,
                 t_rel, p_two>>

(* ------------------------------ claims -------------------------------- *)

\* the event cost as the cost model states it, in sixtieths: labor is charged
\* on the replacement minutes
StatedEventCost(fans, downtime_min, replacement_min) ==
  fans * FAN_COST * Scale + downtime_min * DOWNTIME_RATE * Scale
    + replacement_min * LABOR_RATE

\* C1: every event of the script and every event costed by calculate_costs
\* costs replacement + downtime + labor, with labor charged on the
\* replacement minutes only (one fan, downtime 40, replacement 20: 442).
C1_LaborOnReplacementMinutes ==
  /\ (prog = "V0" /\ pc \in {"simulate", "returned", "done"}) =>
       \A r \in Runs :
         ex[r].i >= 1 =>
           ex[r].ev.event_cost =
             StatedEventCost(fans_replaced[ex[r].policy], ex[r].ev.downtime,
                             replacement_time[ex[r].policy])
  /\ (prog = "tab1" /\ num > 0) =>
       /\ c = StatedEventCost(num, downtime, REPLACEMENT_TIME[num])
       /\ (num = 1 /\ downtime = 40) => c = 442 * Scale
       /\ (num = 3 /\ downtime = 60) => c = 716 * Scale

\* C2: in the cost-per-hour comparison the current-policy run and the
\* proposed-policy run of trial i consume the same draws of the random
\* source.
C2_MatchedPairs ==
  prog = "tab2" =>
    \A i \in 1..Len(spans.proposed) :
      i <= Len(spans.current) => spans.current[i] = spans.proposed[i]

Zeros(lv) == {i \in 1..3 : lv[i] = 0}

\* C3 as stated: after the elapsed time is subtracted and before renewal,
\* exactly one remaining lifetime is 0.
C3_ExactlyOneZero ==
  (prog = "tab2" /\ pc = "aged") => Cardinality(Zeros(lives)) = 1

\* C3 as amended: after the elapsed time is subtracted and before renewal,
\* at least one remaining lifetime is 0 and none is negative.
C3_SomeZeroNoneNegative ==
  (prog = "tab2" /\ pc = "aged") =>
    /\ \A i \in 1..3 : lives[i] >= 0
    /\ Cardinality(Zeros(lives)) >= 1

C3_Witness ==
  prog = "tab2" /\ pc = "aged" /\ Cardinality(Zeros(lives)) = 2

\* C4 as stated: after the renewal step of every event, under both
\* policies, all three remaining lifetimes are strictly positive.
C4_AllPositiveAfterRenewal ==
  (prog = "tab2" /\ pc \in {"event", "ret"} /\ k >= 1) =>
    \A i \in 1..3 : lives[i] > 0

\* C4 as amended: after the renewal step, under the proposed policy all
\* three remaining lifetimes are strictly positive; under the current
\* policy the renewed slot is strictly positive and no slot is negative.
C4_RenewedSlotsPositive ==
  (prog = "tab2" /\ pc \in {"event", "ret"} /\ k >= 1) =>
    /\ replace_all => \A i \in 1..3 : lives[i] > 0
    /\ ~replace_all => lives[idx] > 0 /\ \A i \in 1..3 : lives[i] >= 0

C4_Witness ==
  /\ prog = "tab2" /\ pc = "event" /\ k >= 1 /\ ~replace_all
  /\ Zeros(lives) # {}

\* C5: a trial with at least one failure returns with total_hours > 0, so
\* the division does not fail; it fails only when n_fail is 0.
C5_HoursPositiveAtReturn ==
  prog = "tab2" =>
    /\ (pc = "ret" /\ n_fail >= 1) => total_hours > 0
    /\ pc = "ZeroDivisionError" => n_fail = 0

C5_Witness ==
  prog = "tab2" /\ pc = "ret" /\ k = n_fail /\ t_fail = 0 /\ total_hours > 0

\* C6: a fixed-count run makes exactly num_failures iterations, each drawing
\* a lifetime and then a delay, and its total is the sum of the event costs
\* of the delays drawn; the lifetimes drawn have no part in it.
C6_FixedCountTotal ==
  /\ (prog = "V0" /\ pc \in {"returned", "done"}) =>
       \A r \in Runs :
         LET e == ex[r]
             rt == replacement_time[e.policy]
         IN /\ e.i = num_failures
            /\ Len(e.delays) = num_failures
            /\ e.pos = e.first + 2 * num_failures
            /\ \A j \in 1..Len(e.delays) :
                 /\ e.lifes[j] = life_of[mt[e.seed][e.first + 2 * j - 1]]
                 /\ e.delays[j] = arrival_of[mt[e.seed][e.first + 2 * j]]
            /\ e.policy = "current" => e.cost_current = e.total_cost
            /\ e.policy = "proposed" => e.cost_proposed = e.total_cost
            /\ e.total_cost =
                 SumSeq([j \in 1..Len(e.delays) |->
                           StatedEventCost(fans_replaced[e.policy],
                                           e.delays[j] + rt, rt)])
  /\ (prog = "tab1" /\ pc = "append") =>
       /\ k = n_fail
       /\ Len(dlog) = n_fail
       /\ npPos = 2 * n_fail * (Len(costs) + 1)
       /\ cum_cost =
            SumSeq([j \in 1..Len(dlog) |->
                      calculate_costs(dlog[j] + REPLACEMENT_TIME[replace_count],
                                      replace_count).total_cost])

C6_Witness ==
  /\ prog = "V0" /\ pc = "done" /\ ex[1].policy = "proposed"
  /\ ex[1].lifes[1] # ex[1].lifes[num_failures]
  /\ ex[1].delays[1] # ex[1].delays[num_failures]

\* C7: two executions of the script that seed the generator identically
\* draw the same values and reach the same totals for both policies.
C7_Determinism ==
  (prog = "V0" /\ pc # "seed") =>
    /\ ex[1].lifes = ex[2].lifes
    /\ ex[1].delays = ex[2].delays
    /\ ex[1].total_cost = ex[2].total_cost
    /\ ex[1].cost_current = ex[2].cost_current
    /\ ex[1].cost_proposed = ex[2].cost_proposed

C7_Witness ==
  /\ prog = "V0" /\ pc = "done"
  /\ ex[1].cost_proposed = ex[2].cost_proposed
  /\ ex[1].cost_current > num_failures * EventCost("current", 20).event_cost

\* C8: the one-tailed p is p_two/2 when t > 0 and 1 - p_two/2 otherwise, and
\* the proposed policy is reported significantly better exactly when its
\* mean rate is strictly lower and the one-tailed p is strictly below alpha.
C8_PairedDecision ==
  (prog = "stat" /\ pc = "done") =>
    /\ p_two # NaN =>
         p_one = IF t_rel = "pos" THEN p_two ELSE 2000 - p_two
    /\ verdict \in {"success", "info"}
    /\ verdict = "success" <=>
         /\ SumSeq(rates_prop) < SumSeq(rates_curr)
         /\ p_one # NaN
         /\ p_one < alpha

C8_Witness ==
  prog = "stat" /\ pc = "done" /\ verdict = "success"

\* C9: under the current policy the renewal step overwrites one slot, the
\* lowest-index slot holding the minimum, with a fresh lifetime, counts one
\* fan replaced, and leaves the other two slots as they were.
C9_CurrentRenewsOneSlot ==
  [][(prog = "tab2" /\ pc = "aged" /\ pc' # "aged" /\ ~replace_all) =>
       \E m \in 1..3 :
         /\ \A j \in 1..3 : lives[m] <= lives[j]
         /\ \A j \in 1..(m - 1) : lives[m] < lives[j]
         /\ idx' = m
         /\ num' = 1
         /\ lives'[m] \in {LIFETIME_VALUES[j] : j \in 1..10}
         /\ \A j \in 1..3 : j # m => lives'[j] = lives[j]]_vars

C9_Witness ==
  /\ prog = "tab2" /\ pc = "event" /\ k >= 1 /\ ~replace_all
  /\ num = 1 /\ idx = 1 /\ lives[2] = 0

\* C10: every trial consumes the same draws in the same order whatever the
\* policy: 3 lifetimes at its start, then 3 lifetimes and a delay per event;
\* after the trials done so far the stream stands at their number times
\* 3 + 4 * n_fail.
C10_DrawsPerTrial ==
  prog = "tab2" =>
    /\ pc \in {"trial", "done"} =>
         rsPos = (Len(spans.current) + Len(spans.proposed)) * (3 + 4 * n_fail)
    /\ pc \in {"event", "ret"} => rsPos = first + 3 + 4 * k
    /\ pc = "aged" => rsPos = first + 3 + 4 * k
    /\ \A pol \in {"current", "proposed"} :
         \A i \in 1..Len(spans[pol]) :
           spans[pol][i][2] - spans[pol][i][1] = 3 + 4 * n_fail

C10_Witness ==
  /\ prog = "tab2" /\ pc = "done"
  /\ Len(spans.current) = n_trials /\ Len(spans.proposed) = n_trials

(* --------------------------- specification ---------------------------- *)

\* the fixed-count simulators: the script, run twice, and run_total_policy
InitFixed == V0Init \/ T1Init

NextFixed ==
  \/ V0Seed
  \/ V0Iterate
  \/ V0CallProposed
  \/ T1Trial
  \/ T1Iterate
  \/ T1Append
  \/ T1Return

SpecFixed == InitFixed /\ [][NextFixed]_vars

\* the cost-per-hour tab: the trials of both policies, and the comparator
InitRate == T2Init \/ StInit

NextRate ==
  \/ T2RandomState
  \/ T2Trial
  \/ T2Age
  \/ T2Renew
  \/ T2Return
  \/ StTTest
  \/ StDecide

SpecRate == InitRate /\ [][NextRate]_vars

Init == InitFixed \/ InitRate

Next == NextFixed \/ NextRate

Spec == Init /\ [][Next]_vars

====
